---- MODULE Spec2Model ----
(***************************************************************************)
(* Model of src/chainparamsbase.cpp: the base chain parameter factory      *)
(* (CreateBaseChainParams), the process-wide holder globalChainBaseParams   *)
(* with its asserting accessor (BaseParams), the selection entry point      *)
(* (SelectBaseParams) and the registration of the chain selection options   *)
(* (SetupChainParamsBaseOptions).                                           *)
(*                                                                         *)
(* A std::unique_ptr<CBaseChainParams> is modelled as a set holding at most *)
(* one record [strDataDir, nRPCPort]; the empty set is the null pointer.    *)
(* The calls made on gArgs are recorded: addArgCalls is the sequence of     *)
(* AddArg calls, configNetwork the argument of the last SelectConfigNetwork *)
(* call.                                                                    *)
(***************************************************************************)
EXTENDS Integers, Sequences, FiniteSets, TLC

VARIABLES
    globalChainBaseParams, \* the static unique_ptr: {} when null, {params} when set
    configNetwork,         \* argument of the last gArgs.SelectConfigNetwork call
    addArgCalls,           \* the gArgs.AddArg calls made so far, in order
    setupCalls,            \* number of SetupChainParamsBaseOptions calls so far
    aborted,               \* TRUE once assert() has terminated the process
    op,                    \* the operation executed last
    arg,                   \* its chain argument (NoChain when it takes none)
    ret,                   \* its return value: {} for none, {params} otherwise
    lastSelected,          \* argument of the most recent SelectBaseParams call
    prevSelected,          \* argument of the SelectBaseParams call before that one
    created                \* per identifier, the values CreateBaseChainParams returned

vars == <<globalChainBaseParams, configNetwork, addArgCalls, setupCalls,
          aborted, op, arg, ret, lastSelected, prevSelected, created>>

\* Bound on the number of SetupChainParamsBaseOptions calls explored.
MaxSetupCalls == 2

\* CBaseChainParams::MAIN, TESTNET, SIGNET, REGTEST
MAIN == "main"
TESTNET == "test"
SIGNET == "signet"
REGTEST == "regtest"

\* Marker for "no chain argument" / "no call yet"; not a chain identifier.
NoChain == "<none>"

\* The identifiers the operations are called with: the four reserved names,
\* the empty string, a differently-cased variant of a reserved name, a custom
\* name that equals a reserved chain's directory, and a plain custom name.
Chains == {"main", "test", "regtest", "signet", "", "Main", "testnet3", "mytestnet"}

\* CBaseChainParams(data_dir, rpc_port)
CBaseChainParams(data_dir, rpc_port) ==
    [strDataDir |-> data_dir, nRPCPort |-> rpc_port]

\* A factory that forgets the signet branch (signet falls through to custom).
CreateNoSignet(chain) ==
    IF chain = MAIN THEN CBaseChainParams("", 8332)
    ELSE IF chain = TESTNET THEN CBaseChainParams("testnet3", 18332)
    ELSE IF chain = REGTEST THEN CBaseChainParams("regtest", 18443)
    ELSE CBaseChainParams(chain, 18553)

\* A factory whose fallback uses a fixed directory instead of the identifier.
CreateFixedCustomDir(chain) ==
    IF chain = MAIN THEN CBaseChainParams("", 8332)
    ELSE IF chain = TESTNET THEN CBaseChainParams("testnet3", 18332)
    ELSE IF chain = REGTEST THEN CBaseChainParams("regtest", 18443)
    ELSE IF chain = SIGNET THEN CBaseChainParams("signet", 38332)
    ELSE CBaseChainParams("custom", 18553)

\* A factory that gives regtest the signet directory.
CreateSharedDir(chain) ==
    IF chain = MAIN THEN CBaseChainParams("", 8332)
    ELSE IF chain = TESTNET THEN CBaseChainParams("testnet3", 18332)
    ELSE IF chain = REGTEST THEN CBaseChainParams("signet", 18443)
    ELSE IF chain = SIGNET THEN CBaseChainParams("signet", 38332)
    ELSE CBaseChainParams(chain, 18553)

\* CreateBaseChainParams: exact-match cascade, then the custom-chain fallback.
CreateBaseChainParams(chain) ==
    IF chain = MAIN THEN CBaseChainParams("", 8332)
    ELSE IF chain = TESTNET THEN CBaseChainParams("testnet3", 18332)
    ELSE IF chain = REGTEST THEN CBaseChainParams("regtest", 18443)
    ELSE IF chain = SIGNET THEN CBaseChainParams("signet", 38332)
    ELSE CBaseChainParams(chain, 18553)

\* One gArgs.AddArg(name, help, flags, cat) call.  reserved transcribes the
\* "Reserved values: ..." list of the help text (empty when it has none).
AddArg(name, help, reserved, flags, cat) ==
    [name |-> name, help |-> help, reserved |-> reserved, flags |-> flags, cat |-> cat]

\* Registration in which -signet_blockscript is registered as ALLOW_ANY.
ChainOptionsAnyScript ==
    << AddArg("-chain", "Use the chain <chain> (default: main). Reserved values: main, test, regtest. With any other value, a custom chain is used. All regtest-only options are available in custom chains too.",
              {"main", "test", "regtest"}, {"ALLOW_ANY"}, "CHAINPARAMS"),
       AddArg("-regtest", "Enter regression test mode, which uses a special chain in which blocks can be solved instantly. This is intended for regression testing tools and app development. Equivalent to -chain=regtest.",
              {}, {"ALLOW_ANY", "DEBUG_ONLY"}, "CHAINPARAMS"),
       AddArg("-segwitheight", "Set the activation height of segwit. -1 to disable. (regtest-only)",
              {}, {"ALLOW_ANY", "DEBUG_ONLY"}, "DEBUG_TEST"),
       AddArg("-testnet", "Use the test chain. Equivalent to -chain=test.",
              {}, {"ALLOW_ANY"}, "CHAINPARAMS"),
       AddArg("-vbparams", "Use given start/end times for specified version bits deployment (regtest-only)",
              {}, {"ALLOW_ANY", "DEBUG_ONLY"}, "CHAINPARAMS"),
       AddArg("-signet", "Use the signet chain. Note that the network is defined by the signet_blockscript parameter",
              {}, {"ALLOW_ANY"}, "CHAINPARAMS"),
       AddArg("-signet_blockscript", "Blocks must satisfy the given script to be considered valid (only for signet networks)",
              {}, {"ALLOW_ANY"}, "CHAINPARAMS"),
       AddArg("-signet_enforcescript", "Blocks must satisfy the given script to be considered valid (this replaces -signet_blockscript, and is used for opt-in-reorg mode)",
              {}, {"ALLOW_STRING"}, "CHAINPARAMS"),
       AddArg("-is_test_chain", "Whether it's allowed to set -acceptnonstdtxn=0 for this chain or not. Default: 1 (regtest-only)",
              {}, {"ALLOW_ANY", "DEBUG_ONLY"}, "CHAINPARAMS") >>

\* The AddArg calls of SetupChainParamsBaseOptions, in source order.
ChainOptions ==
    << AddArg("-chain", "Use the chain <chain> (default: main). Reserved values: main, test, regtest. With any other value, a custom chain is used. All regtest-only options are available in custom chains too.",
              {"main", "test", "regtest"}, {"ALLOW_ANY"}, "CHAINPARAMS"),
       AddArg("-regtest", "Enter regression test mode, which uses a special chain in which blocks can be solved instantly. This is intended for regression testing tools and app development. Equivalent to -chain=regtest.",
              {}, {"ALLOW_ANY", "DEBUG_ONLY"}, "CHAINPARAMS"),
       AddArg("-segwitheight", "Set the activation height of segwit. -1 to disable. (regtest-only)",
              {}, {"ALLOW_ANY", "DEBUG_ONLY"}, "DEBUG_TEST"),
       AddArg("-testnet", "Use the test chain. Equivalent to -chain=test.",
              {}, {"ALLOW_ANY"}, "CHAINPARAMS"),
       AddArg("-vbparams", "Use given start/end times for specified version bits deployment (regtest-only)",
              {}, {"ALLOW_ANY", "DEBUG_ONLY"}, "CHAINPARAMS"),
       AddArg("-signet", "Use the signet chain. Note that the network is defined by the signet_blockscript parameter",
              {}, {"ALLOW_ANY"}, "CHAINPARAMS"),
       AddArg("-signet_blockscript", "Blocks must satisfy the given script to be considered valid (only for signet networks)",
              {}, {"ALLOW_STRING"}, "CHAINPARAMS"),
       AddArg("-signet_enforcescript", "Blocks must satisfy the given script to be considered valid (this replaces -signet_blockscript, and is used for opt-in-reorg mode)",
              {}, {"ALLOW_STRING"}, "CHAINPARAMS"),
       AddArg("-is_test_chain", "Whether it's allowed to set -acceptnonstdtxn=0 for this chain or not. Default: 1 (regtest-only)",
              {}, {"ALLOW_ANY", "DEBUG_ONLY"}, "CHAINPARAMS") >>

\* State at process start: the static unique_ptr is null, nothing registered.
Init ==
    /\ globalChainBaseParams = {}
    /\ configNetwork = NoChain
    /\ addArgCalls = << >>
    /\ setupCalls = 0
    /\ aborted = FALSE
    /\ op = "start"
    /\ arg = NoChain
    /\ ret = {}
    /\ lastSelected = NoChain
    /\ prevSelected = NoChain
    /\ created = [c \in Chains |-> {}]

\* SetupChainParamsBaseOptions(): nine AddArg calls on gArgs.
SetupChainParamsBaseOptions ==
    /\ ~aborted
    /\ setupCalls < MaxSetupCalls
    /\ addArgCalls' = addArgCalls \o ChainOptions
    /\ setupCalls' = setupCalls + 1
    /\ op' = "SetupChainParamsBaseOptions"
    /\ arg' = NoChain
    /\ ret' = {}
    /\ UNCHANGED <<globalChainBaseParams, configNetwork, aborted, lastSelected, prevSelected, created>>

\* An accessor that hands out a default object instead of asserting.
BaseParamsSentinel ==
    /\ ~aborted
    /\ op' = "BaseParams"
    /\ arg' = NoChain
    /\ ret' = IF globalChainBaseParams = {} THEN {CBaseChainParams("", 0)}
              ELSE globalChainBaseParams
    /\ UNCHANGED <<globalChainBaseParams, configNetwork, addArgCalls, setupCalls,
                   aborted, lastSelected, prevSelected, created>>

\* An accessor that gives its object away (moves out of the holder).
BaseParamsMoves ==
    /\ ~aborted
    /\ op' = "BaseParams"
    /\ arg' = NoChain
    /\ aborted' = (globalChainBaseParams = {})
    /\ ret' = globalChainBaseParams
    /\ globalChainBaseParams' = {}
    /\ UNCHANGED <<configNetwork, addArgCalls, setupCalls, lastSelected, prevSelected, created>>

\* BaseParams(): assert(globalChainBaseParams); return *globalChainBaseParams.
BaseParams ==
    /\ ~aborted
    /\ op' = "BaseParams"
    /\ arg' = NoChain
    /\ aborted' = (globalChainBaseParams = {})
    /\ ret' = globalChainBaseParams
    /\ UNCHANGED <<globalChainBaseParams, configNetwork, addArgCalls, setupCalls,
                   lastSelected, prevSelected, created>>

\* A factory call that also installs its result in the holder.
CreateCallInstalls(chain) ==
    /\ ~aborted
    /\ op' = "CreateBaseChainParams"
    /\ arg' = chain
    /\ ret' = {CreateBaseChainParams(chain)}
    /\ created' = [created EXCEPT ![chain] = @ \cup {CreateBaseChainParams(chain)}]
    /\ globalChainBaseParams' = {CreateBaseChainParams(chain)}
    /\ UNCHANGED <<configNetwork, addArgCalls, setupCalls, aborted, lastSelected,
                   prevSelected>>

\* A call of CreateBaseChainParams(chain) by the host; the result goes to the caller.
CreateCall(chain) ==
    /\ ~aborted
    /\ op' = "CreateBaseChainParams"
    /\ arg' = chain
    /\ ret' = {CreateBaseChainParams(chain)}
    /\ created' = [created EXCEPT ![chain] = @ \cup {CreateBaseChainParams(chain)}]
    /\ UNCHANGED <<globalChainBaseParams, configNetwork, addArgCalls, setupCalls,
                   aborted, lastSelected, prevSelected>>

\* A selection that keeps the first value once the holder is populated.
SelectFirstWins(chain) ==
    /\ ~aborted
    /\ op' = "SelectBaseParams"
    /\ arg' = chain
    /\ ret' = {}
    /\ globalChainBaseParams' = IF globalChainBaseParams = {}
                                THEN {CreateBaseChainParams(chain)}
                                ELSE globalChainBaseParams
    /\ configNetwork' = chain
    /\ lastSelected' = chain
    /\ prevSelected' = lastSelected
    /\ UNCHANGED <<addArgCalls, setupCalls, aborted, created>>

\* A selection that does not tell gArgs again once a network was selected.
SelectNotifiesOnce(chain) ==
    /\ ~aborted
    /\ op' = "SelectBaseParams"
    /\ arg' = chain
    /\ ret' = {}
    /\ globalChainBaseParams' = {CreateBaseChainParams(chain)}
    /\ configNetwork' = IF configNetwork = NoChain THEN chain ELSE configNetwork
    /\ lastSelected' = chain
    /\ prevSelected' = lastSelected
    /\ UNCHANGED <<addArgCalls, setupCalls, aborted, created>>

\* SelectBaseParams(chain): store the factory's result, then notify gArgs.
SelectBaseParams(chain) ==
    /\ ~aborted
    /\ op' = "SelectBaseParams"
    /\ arg' = chain
    /\ ret' = {}
    /\ globalChainBaseParams' = {CreateBaseChainParams(chain)}
    /\ configNetwork' = chain
    /\ lastSelected' = chain
    /\ prevSelected' = lastSelected
    /\ UNCHANGED <<addArgCalls, setupCalls, aborted, created>>

Next ==
    \/ SetupChainParamsBaseOptions
    \/ BaseParams
    \/ \E chain \in Chains : CreateCall(chain)
    \/ \E chain \in Chains : SelectBaseParams(chain)

Spec == Init /\ [][Next]_vars

\* The four reserved identifiers (used by the properties below).
Reserved == {MAIN, TESTNET, REGTEST, SIGNET}

\* C1: for each of the four reserved identifiers CreateBaseChainParams returns
\* exactly the pair of the table: main -> ("", 8332), test -> ("testnet3", 18332),
\* regtest -> ("regtest", 18443), signet -> ("signet", 38332).
C1_ReservedTable ==
    /\ created["main"] \subseteq {[strDataDir |-> "", nRPCPort |-> 8332]}
    /\ created["test"] \subseteq {[strDataDir |-> "testnet3", nRPCPort |-> 18332]}
    /\ created["regtest"] \subseteq {[strDataDir |-> "regtest", nRPCPort |-> 18443]}
    /\ created["signet"] \subseteq {[strDataDir |-> "signet", nRPCPort |-> 38332]}
    /\ (op = "CreateBaseChainParams" /\ arg \in Reserved) => ret = created[arg]

C1_Witness ==
    /\ op = "CreateBaseChainParams"
    /\ arg = "signet"
    /\ \A c \in Reserved : created[c] # {}

\* C2: for every string s that is not exactly one of the reserved identifiers
\* (case-sensitive, the empty string included) CreateBaseChainParams(s) does not
\* fail and returns (suffix = s, port = 18553).
C2_CustomFallback ==
    /\ \A c \in Chains \ {"main", "test", "regtest", "signet"} :
          created[c] \subseteq {[strDataDir |-> c, nRPCPort |-> 18553]}
    /\ (op = "CreateBaseChainParams" /\ arg \notin {"main", "test", "regtest", "signet"}) =>
          /\ ~aborted
          /\ ret = {[strDataDir |-> arg, nRPCPort |-> 18553]}

C2_Witness ==
    /\ op = "CreateBaseChainParams"
    /\ arg = ""
    /\ created["Main"] # {}
    /\ created["mytestnet"] # {}

\* C3: once SelectBaseParams has been called, BaseParams returns the value
\* CreateBaseChainParams(x) for the identifier x of the most recent selection;
\* a second selection with another identifier replaces the first without error.
C3_LastSelectionWins ==
    (op = "BaseParams" /\ lastSelected # NoChain) =>
        /\ ~aborted
        /\ ret = {CreateBaseChainParams(lastSelected)}

C3_Witness ==
    /\ op = "BaseParams"
    /\ prevSelected = "main"
    /\ lastSelected = "mytestnet"
    /\ ret = {[strDataDir |-> "mytestnet", nRPCPort |-> 18553]}

\* C4: BaseParams called while no SelectBaseParams call has happened hits the
\* assertion and returns nothing; SetupChainParamsBaseOptions and
\* CreateBaseChainParams calls made before do not populate the holder.
C4_ReadBeforeSelectAborts ==
    /\ lastSelected = NoChain => globalChainBaseParams = {}
    /\ (op = "BaseParams" /\ lastSelected = NoChain) => (aborted /\ ret = {})

C4_Witness ==
    /\ op = "BaseParams"
    /\ aborted
    /\ lastSelected = NoChain
    /\ setupCalls > 0
    /\ \E c \in Chains : created[c] # {}

\* C5: CreateBaseChainParams is deterministic (all calls with one identifier
\* return the same value) and a call leaves the holder and the network selected
\* in gArgs unchanged, whether the holder is empty or populated.
C5_CreateIsPure ==
    /\ [][op' = "CreateBaseChainParams" =>
            /\ globalChainBaseParams' = globalChainBaseParams
            /\ configNetwork' = configNetwork]_vars
    /\ [](\A c \in Chains : Cardinality(created[c]) <= 1)

C5_Witness ==
    /\ op = "CreateBaseChainParams"
    /\ arg = "regtest"
    /\ globalChainBaseParams = {[strDataDir |-> "", nRPCPort |-> 8332]}
    /\ configNetwork = "main"
    /\ \E c \in Chains : created[c] # {} /\ c # arg

\* C6 as stated: the suffix is empty for main and, for every other identifier,
\* non-empty and different from the suffix of every other identifier.
C6_Original ==
    \A c \in Chains : \A r \in created[c] :
        /\ c = "main" => r.strDataDir = ""
        /\ c # "main" => r.strDataDir # ""
        /\ \A d \in Chains \ {c} : \A q \in created[d] : q.strDataDir # r.strDataDir

\* C6 (amended): the suffix is empty for main, non-empty for test, regtest and
\* signet, the four reserved suffixes are pairwise different, and a custom
\* identifier receives itself as suffix (so two custom identifiers differ, but
\* "" gets the empty suffix and "testnet3" the suffix of test).
C6_SuffixDistinguishes ==
    /\ \A r \in created["main"] : r.strDataDir = ""
    /\ \A c \in {"test", "regtest", "signet"} : \A r \in created[c] : r.strDataDir # ""
    /\ \A c, d \in {"main", "test", "regtest", "signet"} :
          c # d => \A r \in created[c] : \A q \in created[d] : r.strDataDir # q.strDataDir
    /\ \A c \in Chains \ {"main", "test", "regtest", "signet"} :
          \A r \in created[c] : r.strDataDir = c

C6_Witness ==
    /\ \A c \in {"main", "test", "regtest", "signet", "", "testnet3"} : created[c] # {}
    /\ \E r \in created["test"] : r \notin created["testnet3"]
                                  /\ \E q \in created["testnet3"] : q.strDataDir = r.strDataDir
    /\ \E r \in created[""] : r.strDataDir = ""

\* C7: every SelectBaseParams(x) stores CreateBaseChainParams(x) in the holder
\* and passes x to gArgs.SelectConfigNetwork, so after any selection the stored
\* parameters are those of the network gArgs was last told to use.
C7_HolderMatchesConfigNetwork ==
    /\ op = "SelectBaseParams" =>
          /\ configNetwork = arg
          /\ globalChainBaseParams = {CreateBaseChainParams(arg)}
    /\ lastSelected # NoChain =>
          /\ configNetwork \in Chains
          /\ globalChainBaseParams = {CreateBaseChainParams(configNetwork)}

C7_Witness ==
    /\ op = "SelectBaseParams"
    /\ arg = "signet"
    /\ prevSelected = "regtest"
    /\ configNetwork = "signet"
    /\ globalChainBaseParams = {[strDataDir |-> "signet", nRPCPort |-> 38332]}

\* Names of the registered option groups (used by C8).
ChainShortcuts == {"-regtest", "-testnet", "-signet"}
RegtestOverrides == {"-segwitheight", "-vbparams", "-is_test_chain"}
SignetScripts == {"-signet_blockscript", "-signet_enforcescript"}

\* C8 as stated: nine options per call; -chain and the two signet script
\* options are registered as string-valued, the three shortcuts and the three
\* regtest-only overrides as any/boolean.
C8_Original ==
    /\ Len(addArgCalls) = 9 * setupCalls
    /\ setupCalls > 0 =>
          {addArgCalls[i].name : i \in 1..9} =
              {"-chain"} \cup SignetScripts \cup ChainShortcuts \cup RegtestOverrides
    /\ \A i \in DOMAIN addArgCalls :
          /\ addArgCalls[i].name \in {"-chain"} \cup SignetScripts =>
                ("ALLOW_STRING" \in addArgCalls[i].flags /\ "ALLOW_ANY" \notin addArgCalls[i].flags)
          /\ addArgCalls[i].name \in ChainShortcuts \cup RegtestOverrides =>
                ("ALLOW_ANY" \in addArgCalls[i].flags /\ "ALLOW_STRING" \notin addArgCalls[i].flags)

\* C8 (amended): nine options per call; only the two signet script options are
\* registered as string-valued (ALLOW_STRING); the chain selector -chain, the
\* three shortcuts and the three regtest-only overrides are registered ALLOW_ANY.
C8_OptionKinds ==
    /\ Len(addArgCalls) = 9 * setupCalls
    /\ setupCalls > 0 =>
          {addArgCalls[i].name : i \in 1..9} =
              {"-chain"} \cup SignetScripts \cup ChainShortcuts \cup RegtestOverrides
    /\ \A i \in DOMAIN addArgCalls :
          /\ addArgCalls[i].name \in SignetScripts =>
                ("ALLOW_STRING" \in addArgCalls[i].flags /\ "ALLOW_ANY" \notin addArgCalls[i].flags)
          /\ addArgCalls[i].name \in {"-chain"} \cup ChainShortcuts \cup RegtestOverrides =>
                ("ALLOW_ANY" \in addArgCalls[i].flags /\ "ALLOW_STRING" \notin addArgCalls[i].flags)

C8_Witness ==
    /\ op = "SetupChainParamsBaseOptions"
    /\ setupCalls = 1
    /\ Len(addArgCalls) = 9
    /\ \E i \in DOMAIN addArgCalls : addArgCalls[i].name = "-chain"

\* C9: the help text registered for -chain names as reserved values exactly the
\* identifiers CreateBaseChainParams treats specially (main, test, signet, regtest).
C9_HelpNamesReserved ==
    \A i \in DOMAIN addArgCalls :
        addArgCalls[i].name = "-chain" =>
            /\ addArgCalls[i].reserved =
                  {c \in Chains : CreateBaseChainParams(c) # CBaseChainParams(c, 18553)}
            /\ addArgCalls[i].reserved = {"main", "test", "signet", "regtest"}

\* C10: the holder starts empty, is never emptied again once populated,
\* BaseParams leaves it unchanged, and so every BaseParams call after the first
\* selection succeeds, whatever Select, Create or Setup calls come in between.
C10_HolderMonotone ==
    /\ globalChainBaseParams = {}
    /\ [][globalChainBaseParams # {} => globalChainBaseParams' # {}]_vars
    /\ [][op' = "BaseParams" => globalChainBaseParams' = globalChainBaseParams]_vars
    /\ []((lastSelected # NoChain) => (globalChainBaseParams # {} /\ ~aborted))

C10_Witness ==
    /\ op = "BaseParams"
    /\ ~aborted
    /\ ret # {}
    /\ prevSelected # NoChain
    /\ setupCalls = MaxSetupCalls
    /\ \E c \in Chains : created[c] # {}

====
